---- MODULE Spec2Model ----
(***************************************************************************)
(* Model of node-alexa-smapi: the client factory alexaSMAPI (index.js),    *)
(* its transport adapter `rest`, the operation catalog, and the mocha      *)
(* harness that drives it (retry / waitOn* pollers).                       *)
(*                                                                         *)
(* JavaScript values are encoded as follows.  A string is a TLA+ string;   *)
(* the value undefined is the string Undefined; an object is a function    *)
(* from its own keys to values; a URL is the sequence of its path          *)
(* segments.                                                               *)
(***************************************************************************)
EXTENDS Integers, Sequences, FiniteSets, TLC

(* ---------------------------------------------------------------------- *)
(* JavaScript value helpers                                                *)
(* ---------------------------------------------------------------------- *)
Undefined == "<undefined>"

\* a value that is not a string (typeof value !== 'string')
NotAString == "<number 42>"

EmptyObj == [k \in {} |-> Undefined]

\* typeof v === 'string'
IsString(v) == v \notin {Undefined, NotAString}

\* v.length for a string
StrLength(v) == IF v = "" THEN 0 ELSE 1

\* `${v}` : template-literal interpolation
Interp(v) == IF v = Undefined THEN "undefined" ELSE v

\* obj.key : reading an absent own key yields undefined
Get(obj, key) == IF key \in DOMAIN obj THEN obj[key] ELSE Undefined

\* Object.assign({}, a, b): keys of b overwrite keys of a
ObjectAssign(a, b) ==
  [k \in (DOMAIN a) \cup (DOMAIN b) |-> IF k \in DOMAIN b THEN b[k] ELSE a[k]]

\* delete obj.key
DeleteKey(obj, key) == [k \in (DOMAIN obj) \ {key} |-> obj[k]]

\* what the transport puts on the wire for an object: JSON.stringify and the
\* query-string builder both leave out keys whose value is undefined
Wire(obj) == [k \in {j \in DOMAIN obj : obj[j] # Undefined} |-> obj[k]]

\* keys every object inherits from Object.prototype (what `in` also sees)
ObjectPrototypeKeys == {"toString", "constructor"}

(* ---------------------------------------------------------------------- *)
(* index.js constants                                                      *)
(* ---------------------------------------------------------------------- *)
BASE_URLS ==
  [NA |-> "https://api.amazonalexa.com",
   EU |-> "https://api.eu.amazonalexa.com",
   FE |-> "https://api.fe.amazonalexa.com"]

DEFAULT_GEO_REGION == "NA"

VERSION_0 == "v0"

VERSION_1 == "v1"

SUPPORTED_VERSIONS == <<VERSION_0, VERSION_1>>

DEFAULT_VERSION == SUPPORTED_VERSIONS[Len(SUPPORTED_VERSIONS)]

\* key in obj : own keys and inherited keys
InOperator(key, obj) == key \in DOMAIN obj \/ key \in ObjectPrototypeKeys

\* obj[key] : an inherited key reads the inherited (function) value
Lookup(obj, key) ==
  IF key \in DOMAIN obj THEN obj[key]
  ELSE IF key \in ObjectPrototypeKeys THEN "<function " \o key \o ">"
  ELSE Undefined

\* SUPPORTED_VERSIONS.includes(v)
Includes(seq, v) == \E i \in 1..Len(seq) : seq[i] = v

\* line 20: the version a client is built with
SelectVersionDefaultsOldest(params) ==
  IF Includes(SUPPORTED_VERSIONS, Get(params, "version"))
  THEN Get(params, "version") ELSE SUPPORTED_VERSIONS[1]

SelectVersion(params) ==
  IF Includes(SUPPORTED_VERSIONS, Get(params, "version"))
  THEN Get(params, "version") ELSE DEFAULT_VERSION

\* line 25: the baseURL handed to axios.create
SelectBaseURL(params) ==
  Lookup(BASE_URLS,
         IF InOperator(Get(params, "region"), BASE_URLS)
         THEN Get(params, "region") ELSE DEFAULT_GEO_REGION)

(* ---------------------------------------------------------------------- *)
(* Bounds of the model                                                     *)
(* ---------------------------------------------------------------------- *)
\* a call supplies between 0 and MaxArgs positional arguments
MaxArgs == 4

\* the two client instances of the process
Clients == {"A", "B"}

\* the i-th positional argument of a call is the opaque value ArgNames[i]
ArgNames == <<"arg1", "arg2", "arg3", "arg4", "arg5", "arg6">>

ArgLists == {SubSeq(ArgNames, 1, n) : n \in 0..MaxArgs}

\* a positional parameter the caller did not supply is undefined
Param(args, i) == IF i <= Len(args) THEN args[i] ELSE Undefined

Tokens == {"Atza|one", "Atza|two"}

\* what a caller may hand to refreshToken / setBaseUrl
TokenInputs == Tokens \cup {"", Undefined, NotAString}

UrlInputs == {"https://example.test", "", Undefined, NotAString}

VersionInputs == {Undefined, VERSION_0, VERSION_1, "v2"}

RegionInputs == {Undefined, "NA", "EU", "FE", "XX", "toString"}

\* the params objects handed to alexaSMAPI; NoParams is the call alexaSMAPI()
NoParams == [absent |-> "yes"]

ParamsInputs ==
  {NoParams} \cup
  {Wire([version |-> v, region |-> r]) : v \in VersionInputs, r \in RegionInputs}

(* ---------------------------------------------------------------------- *)
(* State                                                                   *)
(* ---------------------------------------------------------------------- *)
VARIABLES
  smapi,          \* per client instance: built, its params, version, rest.client's baseURL
  axiosDefaults,  \* axios.defaults: headers.common.Authorization and baseURL
  pending,        \* the HTTP request in flight (a set of at most one request)
  last,           \* the operation completed most recently (at most one)
  callerParams,   \* the params object the caller hands to intentRequests.list
  h               \* the mocha harness: current test, attempt, subject, sleep

vars == <<smapi, axiosDefaults, pending, last, callerParams, h>>

NotBuilt == [built |-> FALSE, params |-> EmptyObj, version |-> Undefined, baseURL |-> Undefined]

FullParams == [skillId |-> "skill-1", maxResults |-> "10"]

(* ---------------------------------------------------------------------- *)
(* rest: the transport adapter (index.js 23-56)                            *)
(* ---------------------------------------------------------------------- *)
\* the `parameters` argument when the caller passes none
NoParameters == [noParameters |-> Undefined]

\* parameters !== undefined ? parameters : {}
OrEmpty(parameters) == IF parameters = NoParameters THEN EmptyObj ELSE parameters

\* an HTTP request as axios sends it: query parameters and JSON body are
\* serialised by the transport
Request(verb, url, params, data) ==
  [verb |-> verb, url |-> url, params |-> Wire(params), data |-> Wire(data)]

rest_head(url) == Request("HEAD", url, EmptyObj, EmptyObj)

rest_get(url, parameters) == Request("GET", url, OrEmpty(parameters), EmptyObj)

rest_post(url, parameters) == Request("POST", url, EmptyObj, OrEmpty(parameters))

rest_put(url, parameters) == Request("PUT", url, EmptyObj, OrEmpty(parameters))

rest_delete(url) == Request("DELETE", url, EmptyObj, EmptyObj)

(* ---------------------------------------------------------------------- *)
(* The operation catalog (index.js 97-216).  v is smapi.version.           *)
(* ---------------------------------------------------------------------- *)
skills_getManifest(v, skillId, stage) ==
  LET url == [v0 |-> <<"v0", "skills", Interp(skillId)>>,
              v1 |-> <<"v1", "skills", Interp(skillId), "stages", Interp(stage), "manifest">>]
  IN rest_get(url[v], NoParameters)

skills_create(v, vendorId, skillManifest) ==
  IF v = VERSION_0
  THEN rest_post(<<"v0", "skills">>, [vendorId |-> vendorId, skillManifest |-> skillManifest])
  ELSE rest_post(<<"v1", "skills">>, [vendorId |-> vendorId, manifest |-> skillManifest])

\* a legacy remap that forgets to move the manifest out of the stage slot
skills_updateNoRemap(v, skillId, stage, skillManifest) ==
  IF v = VERSION_0
  THEN rest_put(<<"v0", "skills", Interp(skillId)>>, [skillManifest |-> skillManifest])
  ELSE rest_put(<<"v1", "skills", Interp(skillId), "stages", Interp(stage), "manifest">>,
                [manifest |-> skillManifest])

skills_update(v, skillId, stage, skillManifest) ==
  IF v = VERSION_0
  THEN LET skillManifest0 == stage
       IN rest_put(<<"v0", "skills", Interp(skillId)>>, [skillManifest |-> skillManifest0])
  ELSE rest_put(<<"v1", "skills", Interp(skillId), "stages", Interp(stage), "manifest">>,
                [manifest |-> skillManifest])

\* a status check that always goes to the newest version
skills_statusNewest(v, skillId) ==
  rest_get(<<Interp(DEFAULT_VERSION), "skills", Interp(skillId), "status">>, NoParameters)

skills_status(v, skillId) ==
  rest_get(<<Interp(v), "skills", Interp(skillId), "status">>, NoParameters)

skills_list(v, vendorId, maxResults, nextToken) ==
  rest_get(<<Interp(v), "skills">>,
           [vendorId |-> vendorId, maxResults |-> maxResults, nextToken |-> nextToken])

skills_delete(v, skillId) == rest_delete(<<Interp(v), "skills", Interp(skillId)>>)

\* the URL table shared by interactionModel.get and getEtag (lines 128-131, 136-139)
interactionModel_url(v, skillId, stage, locale) ==
  LET locale0 == IF v = VERSION_0 THEN stage ELSE locale
      url == [v0 |-> <<"v0", "skills", Interp(skillId), "interactionModel", "locales",
                       Interp(locale0)>>,
              v1 |-> <<"v1", "skills", Interp(skillId), "stages", Interp(stage),
                       "interactionModel", "locales", Interp(locale0)>>]
  IN url[v]

interactionModel_get(v, skillId, stage, locale) ==
  rest_get(interactionModel_url(v, skillId, stage, locale), NoParameters)

interactionModel_getEtag(v, skillId, stage, locale) ==
  rest_head(interactionModel_url(v, skillId, stage, locale))

\* the two legacy assignments in the opposite order: locale = stage runs first,
\* so interactionModel receives the stage slot as well
interactionModel_updateSwapped(v, skillId, stage, locale, interactionModel) ==
  IF v = VERSION_0
  THEN LET locale0 == stage
           interactionModel0 == locale0
       IN rest_post(<<"v0", "skills", Interp(skillId), "interactionModel", "locales",
                      Interp(locale0)>>,
                    [interactionModel |-> interactionModel0])
  ELSE rest_put(<<"v1", "skills", Interp(skillId), "stages", Interp(stage),
                  "interactionModel", "locales", Interp(locale)>>,
                [interactionModel |-> interactionModel])

interactionModel_update(v, skillId, stage, locale, interactionModel) ==
  IF v = VERSION_0
  THEN LET interactionModel0 == locale
           locale0 == stage
       IN rest_post(<<"v0", "skills", Interp(skillId), "interactionModel", "locales",
                      Interp(locale0)>>,
                    [interactionModel |-> interactionModel0])
  ELSE rest_put(<<"v1", "skills", Interp(skillId), "stages", Interp(stage),
                  "interactionModel", "locales", Interp(locale)>>,
                [interactionModel |-> interactionModel])

interactionModel_getStatus(v, skillId, locale) ==
  LET url == [v0 |-> <<"v0", "skills", Interp(skillId), "interactionModel", "locales",
                       Interp(locale), "status">>,
              v1 |-> <<"v1", "skills", Interp(skillId), "status?resource=interactionModel">>]
  IN rest_get(url[v], NoParameters)

accountLinking_update(v, skillId, stage, accountLinkingRequest) ==
  LET accountLinkingRequest0 == IF v = VERSION_0 THEN stage ELSE accountLinkingRequest
      url == [v0 |-> <<"v0", "skills", Interp(skillId), "accountLinkingClient">>,
              v1 |-> <<"v1", "skills", Interp(skillId), "stages", Interp(stage),
                       "accountLinkingClient">>]
  IN rest_put(url[v], [accountLinkingRequest |-> accountLinkingRequest0])

accountLinking_readInfo(v, skillId, stage) ==
  LET url == [v0 |-> <<"v0", "skills", Interp(skillId), "accountLinkingClient">>,
              v1 |-> <<"v1", "skills", Interp(skillId), "stages", Interp(stage),
                       "accountLinkingClient">>]
  IN rest_get(url[v], NoParameters)

accountLinking_delete(v, skillId, stage) ==
  rest_delete(<<"v1", "skills", Interp(skillId), "stages", Interp(stage),
                "accountLinkingClient">>)

vendors_list(v) == rest_get(<<Interp(v), "vendors">>, NoParameters)

skillEnablement_enable(v, skillId, stage) ==
  rest_put(<<"v1", "skills", Interp(skillId), "stages", Interp(stage), "enablement">>,
           NoParameters)

skillEnablement_status(v, skillId, stage) ==
  rest_get(<<"v1", "skills", Interp(skillId), "stages", Interp(stage), "enablement">>,
           NoParameters)

skillEnablement_disable(v, skillId, stage) ==
  rest_delete(<<"v1", "skills", Interp(skillId), "stages", Interp(stage), "enablement">>)

skillCertification_submit(v, skillId) ==
  rest_post(<<Interp(v), "skills", Interp(skillId), "submit">>, NoParameters)

skillCertification_status(v, vendorId, skillId) ==
  rest_get(<<"v1", "skills">>, [vendorId |-> vendorId, skillId |-> skillId])

skillCertification_withdraw(v, skillId, reason, message) ==
  rest_post(<<Interp(v), "skills", Interp(skillId), "withdraw">>,
            [reason |-> reason, message |-> message])

skillTesting_validate(v, skillId, stage, locales) ==
  rest_post(<<"v1", "skills", Interp(skillId), "stages", Interp(stage), "validations">>,
            [locales |-> locales])

skillTesting_validationStatus(v, skillId, stage, validationId) ==
  rest_get(<<"v1", "skills", Interp(skillId), "stages", Interp(stage), "validations",
             Interp(validationId)>>, NoParameters)

skillTesting_invoke(v, skillId, endpointRegion, skillRequest) ==
  rest_post(<<Interp(v), "skills", Interp(skillId), "invocations">>,
            [endpointRegion |-> endpointRegion, skillRequest |-> skillRequest])

\* the nested body { input: { content }, device: { locale } }, flattened
skillTesting_simulate(v, skillId, content, locale) ==
  rest_post(<<Interp(v), "skills", Interp(skillId), "simulations">>,
            [input_content |-> content, device_locale |-> locale])

skillTesting_simulationStatus(v, skillId, requestId) ==
  rest_get(<<Interp(v), "skills", Interp(skillId), "simulations", Interp(requestId)>>,
           NoParameters)

\* intentRequests.list(params): the request, from the caller's object
intentRequests_list(v, params) ==
  LET skillId == Get(params, "skillId")
  IN rest_get(<<"v1", "skills", Interp(skillId), "history", "intentRequests">>,
              DeleteKey(params, "skillId"))

custom_head(url) == rest_head(url)

custom_get(url, parameters) == rest_get(url, parameters)

custom_post(url, parameters) == rest_post(url, parameters)

custom_put(url, parameters) == rest_put(url, parameters)

custom_delete(url) == rest_delete(url)

(* ---------------------------------------------------------------------- *)
(* Calling an operation: the request it hands to the transport             *)
(* ---------------------------------------------------------------------- *)
CatalogOps ==
  {"skills.getManifest", "skills.create", "skills.update", "skills.status",
   "skills.list", "skills.delete",
   "interactionModel.get", "interactionModel.getEtag", "interactionModel.update",
   "interactionModel.getStatus",
   "accountLinking.update", "accountLinking.readInfo", "accountLinking.delete",
   "vendors.list",
   "skillEnablement.enable", "skillEnablement.status", "skillEnablement.disable",
   "skillCertification.submit", "skillCertification.status",
   "skillCertification.withdraw",
   "skillTesting.validate", "skillTesting.validationStatus", "skillTesting.invoke",
   "skillTesting.simulate", "skillTesting.simulationStatus"}

\* smapi.<group>.<operation>(a[1], a[2], ...) on a client of version v
Invoke(op, v, a) ==
  CASE op = "skills.getManifest" -> skills_getManifest(v, Param(a, 1), Param(a, 2))
    [] op = "skills.create" -> skills_create(v, Param(a, 1), Param(a, 2))
    [] op = "skills.update" -> skills_update(v, Param(a, 1), Param(a, 2), Param(a, 3))
    [] op = "skills.status" -> skills_status(v, Param(a, 1))
    [] op = "skills.list" -> skills_list(v, Param(a, 1), Param(a, 2), Param(a, 3))
    [] op = "skills.delete" -> skills_delete(v, Param(a, 1))
    [] op = "interactionModel.get" ->
         interactionModel_get(v, Param(a, 1), Param(a, 2), Param(a, 3))
    [] op = "interactionModel.getEtag" ->
         interactionModel_getEtag(v, Param(a, 1), Param(a, 2), Param(a, 3))
    [] op = "interactionModel.update" ->
         interactionModel_update(v, Param(a, 1), Param(a, 2), Param(a, 3), Param(a, 4))
    [] op = "interactionModel.getStatus" ->
         interactionModel_getStatus(v, Param(a, 1), Param(a, 2))
    [] op = "accountLinking.update" ->
         accountLinking_update(v, Param(a, 1), Param(a, 2), Param(a, 3))
    [] op = "accountLinking.readInfo" -> accountLinking_readInfo(v, Param(a, 1), Param(a, 2))
    [] op = "accountLinking.delete" -> accountLinking_delete(v, Param(a, 1), Param(a, 2))
    [] op = "vendors.list" -> vendors_list(v)
    [] op = "skillEnablement.enable" -> skillEnablement_enable(v, Param(a, 1), Param(a, 2))
    [] op = "skillEnablement.status" -> skillEnablement_status(v, Param(a, 1), Param(a, 2))
    [] op = "skillEnablement.disable" -> skillEnablement_disable(v, Param(a, 1), Param(a, 2))
    [] op = "skillCertification.submit" -> skillCertification_submit(v, Param(a, 1))
    [] op = "skillCertification.status" ->
         skillCertification_status(v, Param(a, 1), Param(a, 2))
    [] op = "skillCertification.withdraw" ->
         skillCertification_withdraw(v, Param(a, 1), Param(a, 2), Param(a, 3))
    [] op = "skillTesting.validate" ->
         skillTesting_validate(v, Param(a, 1), Param(a, 2), Param(a, 3))
    [] op = "skillTesting.validationStatus" ->
         skillTesting_validationStatus(v, Param(a, 1), Param(a, 2), Param(a, 3))
    [] op = "skillTesting.invoke" ->
         skillTesting_invoke(v, Param(a, 1), Param(a, 2), Param(a, 3))
    [] op = "skillTesting.simulate" ->
         skillTesting_simulate(v, Param(a, 1), Param(a, 2), Param(a, 3))
    [] op = "skillTesting.simulationStatus" ->
         skillTesting_simulationStatus(v, Param(a, 1), Param(a, 2))

\* smapi.custom.<verb>(url, parameters)
InvokeCustom(verb, url, parameters) ==
  CASE verb = "HEAD" -> custom_head(url)
    [] verb = "GET" -> custom_get(url, parameters)
    [] verb = "POST" -> custom_post(url, parameters)
    [] verb = "PUT" -> custom_put(url, parameters)
    [] verb = "DELETE" -> custom_delete(url)

Verbs == {"HEAD", "GET", "POST", "PUT", "DELETE"}

\* the axios(...) call of tokens.refresh (lines 74-88)
TOKEN_BASE_URL == "https://api.amazon.com"

tokens_refresh_request(params) ==
  Request("POST", <<"auth", "o2", "token">>, EmptyObj,
          [grant_type |-> "refresh_token",
           refresh_token |-> Get(params, "refreshToken"),
           client_id |-> Get(params, "clientId"),
           client_secret |-> Get(params, "clientSecret")])

RefreshParams ==
  [refreshToken |-> "Atzr|refresh", clientId |-> "client-id", clientSecret |-> "secret"]

\* The Authorization header a request of any instance carries.  refreshToken
\* writes axios.defaults.headers.common (line 62); axios.create shares that
\* `common` object with every instance, and a request reads its headers when
\* it is issued.
RequestAuthorization(c) == axiosDefaults.Authorization

\* a request in flight, with who issued it and how
InFlight(c, op, args, baseURL, req) ==
  [client |-> c, op |-> op, args |-> args, baseURL |-> baseURL,
   auth |-> RequestAuthorization(c), req |-> req]

(* ---------------------------------------------------------------------- *)
(* What the transport answers, and the response normaliser                 *)
(* ---------------------------------------------------------------------- *)
\* an HTTP response with status, headers and JSON body
Reply(status, headers, data) ==
  [neterr |-> FALSE, status |-> status, headers |-> headers, data |-> data]

\* no response at all (connection refused, timeout): the axios error has no
\* `response` property
NetworkError == [neterr |-> TRUE, status |-> 0, headers |-> EmptyObj, data |-> EmptyObj]

HeaderSets ==
  {Wire([location |-> l, etag |-> e]) :
     l \in {Undefined, "hdr-location"}, e \in {Undefined, "hdr-etag"}}

JsonBodies ==
  {Wire([location |-> l, etag |-> e, skillId |-> k]) :
     l \in {Undefined, "body-location"}, e \in {Undefined, "body-etag"},
     k \in {Undefined, "skill-1"}}

TokenBodies ==
  {Wire([access_token |-> t, token_type |-> "bearer"]) : t \in Tokens \cup {"", Undefined}}

ErrorBody == [message |-> "failure"]

StatusText(status) ==
  CASE status = 200 -> "OK"
    [] status = 202 -> "Accepted"
    [] status = 204 -> "No Content"
    [] status = 400 -> "Bad Request"
    [] status = 429 -> "Too Many Requests"
    [] OTHER -> ""

\* axios resolves on 2xx (validateStatus) and rejects on everything else
AxiosResolves(reply) == ~reply.neterr /\ reply.status >= 200 /\ reply.status < 300

\* a settled promise; `defined` is FALSE when its value is undefined
Resolved(value) == [state |-> "resolved", defined |-> TRUE, value |-> value]

RejectedUndefined == [state |-> "rejected", defined |-> FALSE, value |-> EmptyObj]

\* error.response of the axios error for a non-2xx reply
ErrorResponse(reply) ==
  [status |-> reply.status, statusText |-> StatusText(reply.status),
   data |-> reply.data, headers |-> reply.headers]

\* .catch(response => Promise.reject(response.response))
rest_catch(reply) ==
  IF reply.neterr THEN RejectedUndefined
  ELSE [state |-> "rejected", defined |-> TRUE, value |-> ErrorResponse(reply)]

\* response => ({location: response.headers.location, etag: response.headers.etag})
HeadersOnly(response) ==
  [location |-> Get(response.headers, "location"), etag |-> Get(response.headers, "etag")]

head_then(response) == HeadersOnly(response)

get_then(response) == response.data

\* Object.assign with the two sources in the opposite order
post_thenHeadersWin(response) == ObjectAssign(response.data, HeadersOnly(response))

post_then(response) == ObjectAssign(HeadersOnly(response), response.data)

\* a put that merges the body the way post does
put_thenMerged(response) == ObjectAssign(HeadersOnly(response), response.data)

put_then(response) == HeadersOnly(response)

delete_then(response) == response.data

\* the .then(...).catch(...) chain of rest.<verb>
rest_settle(verb, reply) ==
  IF AxiosResolves(reply)
  THEN Resolved(CASE verb = "HEAD" -> head_then(reply)
                  [] verb = "GET" -> get_then(reply)
                  [] verb = "POST" -> post_then(reply)
                  [] verb = "PUT" -> put_then(reply)
                  [] verb = "DELETE" -> delete_then(reply))
  ELSE rest_catch(reply)

\* a validation that lets the empty string through
InvalidStringButEmpty(v) == ~IsString(v)

\* typeof token !== 'string' || token.length === 0  (lines 59, 66)
InvalidString(v) == ~IsString(v) \/ StrLength(v) = 0

\* axios.defaults after a refreshToken that writes nowhere
StoreTokenNowhere(token) == axiosDefaults

\* line 62: axios.defaults.headers.common['Authorization'] = token
StoreToken(token) == [axiosDefaults EXCEPT !.Authorization = token]

\* line 69: axios.defaults.baseURL = url
StoreBaseUrl(url) == [axiosDefaults EXCEPT !.baseURL = url]

\* the chain of tokens.refresh (lines 89-93): a reply whose access_token
\* refreshToken refuses makes the .then throw an Error, which has no
\* `response`, so the .catch rejects with undefined
tokens_refresh_settle(reply) ==
  IF AxiosResolves(reply)
  THEN IF InvalidString(Get(reply.data, "access_token"))
       THEN RejectedUndefined
       ELSE Resolved(reply.data)
  ELSE rest_catch(reply)

(* ---------------------------------------------------------------------- *)
(* Actions of the client library                                           *)
(* ---------------------------------------------------------------------- *)
\* an operation that has completed: a settled promise, or a synchronous call
Completed(c, op, verb, args, reply, outcome) ==
  [client |-> c, op |-> op, verb |-> verb, args |-> args, reply |-> reply,
   outcome |-> outcome]

NoReply == NetworkError

Returned == [state |-> "returned", defined |-> FALSE, value |-> EmptyObj]

Thrown == [state |-> "thrown", defined |-> TRUE, value |-> [message |-> "Error"]]

LibInit ==
  /\ smapi = [c \in Clients |-> NotBuilt]
  /\ axiosDefaults = [Authorization |-> Undefined, baseURL |-> Undefined]
  /\ pending = {}
  /\ last = {}
  /\ callerParams = FullParams

\* the instance alexaSMAPI(params) returns (lines 19-30)
Built(params) ==
  LET p == IF params = NoParams THEN EmptyObj ELSE params
  IN [built |-> TRUE, params |-> p, version |-> SelectVersion(p),
      baseURL |-> SelectBaseURL(p)]

\* alexaSMAPI(params): build client instance c
alexaSMAPI(c, params) ==
  /\ ~smapi[c].built
  /\ smapi' = [smapi EXCEPT ![c] = Built(params)]
  /\ UNCHANGED <<axiosDefaults, pending, last, callerParams>>

\* smapi.refreshToken(token)
refreshToken(c, token) ==
  /\ smapi[c].built
  /\ IF InvalidString(token)
     THEN /\ last' = {Completed(c, "refreshToken", "none", <<token>>, NoReply, Thrown)}
          /\ UNCHANGED axiosDefaults
     ELSE /\ last' = {Completed(c, "refreshToken", "none", <<token>>, NoReply, Returned)}
          /\ axiosDefaults' = StoreToken(token)
  /\ UNCHANGED <<smapi, pending, callerParams>>

\* smapi.setBaseUrl(url)
setBaseUrl(c, url) ==
  /\ smapi[c].built
  /\ IF InvalidString(url)
     THEN /\ last' = {Completed(c, "setBaseUrl", "none", <<url>>, NoReply, Thrown)}
          /\ UNCHANGED axiosDefaults
     ELSE /\ last' = {Completed(c, "setBaseUrl", "none", <<url>>, NoReply, Returned)}
          /\ axiosDefaults' = StoreBaseUrl(url)
  /\ UNCHANGED <<smapi, pending, callerParams>>

\* a catalog operation is called: its request goes to rest.client
CallCatalog(c, op, args) ==
  /\ smapi[c].built
  /\ pending = {}
  /\ pending' = {InFlight(c, op, args, smapi[c].baseURL, Invoke(op, smapi[c].version, args))}
  /\ last' = {}
  /\ UNCHANGED <<smapi, axiosDefaults, callerParams>>

\* smapi.intentRequests.list(params) with the caller's params object, which
\* the operation strips of its skillId (line 205)
CallIntentRequests(c) ==
  /\ smapi[c].built
  /\ pending = {}
  /\ pending' = {InFlight(c, "intentRequests.list", <<>>, smapi[c].baseURL,
                          intentRequests_list(smapi[c].version, callerParams))}
  /\ callerParams' = DeleteKey(callerParams, "skillId")
  /\ last' = {}
  /\ UNCHANGED <<smapi, axiosDefaults>>

\* smapi.custom.<verb>(url, parameters)
CallCustom(c, verb, url, parameters) ==
  /\ smapi[c].built
  /\ pending = {}
  /\ pending' = {InFlight(c, "custom", <<>>, smapi[c].baseURL,
                          InvokeCustom(verb, url, parameters))}
  /\ last' = {}
  /\ UNCHANGED <<smapi, axiosDefaults, callerParams>>

\* smapi.tokens.refresh(params): a request of the global axios to the token host
CallRefresh(c) ==
  /\ smapi[c].built
  /\ pending = {}
  /\ pending' = {InFlight(c, "tokens.refresh", <<>>, TOKEN_BASE_URL,
                          tokens_refresh_request(RefreshParams))}
  /\ last' = {}
  /\ UNCHANGED <<smapi, axiosDefaults, callerParams>>

\* the transport answers the request in flight and the promise chain runs
Settle(reply) ==
  /\ pending # {}
  /\ LET f == CHOOSE x \in pending : TRUE
     IN IF f.op = "tokens.refresh"
        THEN LET out == tokens_refresh_settle(reply)
             IN /\ last' = {Completed(f.client, f.op, f.req.verb, f.args, reply, out)}
                /\ axiosDefaults' = IF out.state = "resolved"
                                    THEN StoreToken(Get(reply.data, "access_token"))
                                    ELSE axiosDefaults
        ELSE /\ last' = {Completed(f.client, f.op, f.req.verb, f.args, reply,
                                   rest_settle(f.req.verb, reply))}
             /\ UNCHANGED axiosDefaults
  /\ pending' = {}
  /\ UNCHANGED <<smapi, callerParams>>

(* ---------------------------------------------------------------------- *)
(* The client library driven by an arbitrary caller                        *)
(* ---------------------------------------------------------------------- *)
HarnessIdle == [pc |-> "off"]

CustomUrls ==
  {<<"v0", "skills", "arg1", "interactionModel", "locales", "arg2">>,
   <<"v1", "skills", "arg1", "stages", "arg2", "enablement">>}

CustomBodies == {NoParameters, [interactionModel |-> "arg3"]}

AllReplies ==
  {Reply(200, hd, d) : hd \in HeaderSets, d \in JsonBodies}
    \cup {Reply(200, EmptyObj, d) : d \in TokenBodies}
    \cup {Reply(st, EmptyObj, ErrorBody) : st \in {400, 429}}
    \cup {NetworkError}

\* the inputs a caller draws from: sc bounds each kind of input
LibNext(sc) ==
  \/ \E c \in sc.clients, p \in sc.params : alexaSMAPI(c, p) /\ UNCHANGED h
  \/ \E c \in sc.clients, t \in sc.tokens : refreshToken(c, t) /\ UNCHANGED h
  \/ \E c \in sc.clients, u \in sc.urls : setBaseUrl(c, u) /\ UNCHANGED h
  \/ \E c \in sc.clients, op \in sc.ops, a \in sc.args :
       CallCatalog(c, op, a) /\ UNCHANGED h
  \/ \E c \in sc.clients : CallIntentRequests(c) /\ UNCHANGED h
  \/ \E c \in sc.clients, verb \in Verbs, u \in sc.customUrls, b \in sc.customBodies :
       CallCustom(c, verb, u, b) /\ UNCHANGED h
  \/ \E c \in sc.clients : CallRefresh(c) /\ UNCHANGED h
  \/ \E r \in sc.replies : Settle(r) /\ UNCHANGED h

Init == LibInit /\ h = HarnessIdle

\* construction and configuration of one instance: every constructor
\* argument, every token and base URL, every operation
ConfigInputs ==
  [clients |-> {"A"}, params |-> ParamsInputs, tokens |-> TokenInputs,
   urls |-> UrlInputs, ops |-> CatalogOps, args |-> {SubSeq(ArgNames, 1, MaxArgs)},
   customUrls |-> {<<"v1", "skills", "arg1", "stages", "arg2", "enablement">>},
   customBodies |-> {NoParameters},
   replies |-> {Reply(200, EmptyObj, EmptyObj), Reply(429, EmptyObj, ErrorBody)}]

Next == LibNext(ConfigInputs)

Spec == Init /\ [][Next]_vars

\* the credential shared by two instances: every token, every token reply
CredentialInputs ==
  [clients |-> Clients, params |-> {NoParams, [version |-> VERSION_0]},
   tokens |-> TokenInputs, urls |-> {"https://example.test"},
   ops |-> {"skills.status"}, args |-> {SubSeq(ArgNames, 1, MaxArgs)},
   customUrls |-> {<<"v1", "skills", "arg1", "stages", "arg2", "enablement">>},
   customBodies |-> {NoParameters},
   replies |-> {Reply(200, EmptyObj, d) : d \in TokenBodies}
                 \cup {Reply(429, EmptyObj, ErrorBody), NetworkError}]

CredentialNext == LibNext(CredentialInputs)

CredentialSpec == Init /\ [][CredentialNext]_vars

\* the response normaliser: every operation against every transport answer
NormaliserInputs ==
  [clients |-> {"A"}, params |-> {NoParams, [version |-> VERSION_0]},
   tokens |-> {"Atza|one"}, urls |-> {"https://example.test"},
   ops |-> CatalogOps, args |-> {SubSeq(ArgNames, 1, MaxArgs)},
   customUrls |-> {<<"v1", "skills", "arg1", "stages", "arg2", "enablement">>},
   customBodies |-> {NoParameters},
   replies |-> AllReplies]

NormaliserNext == LibNext(NormaliserInputs)

NormaliserSpec == Init /\ [][NormaliserNext]_vars

\* the version dispatcher: both versions, every operation with every number
\* of positional arguments
DispatchInputs ==
  [clients |-> {"A"},
   params |-> {NoParams, [version |-> VERSION_0], [version |-> VERSION_1]},
   tokens |-> {"Atza|one"}, urls |-> {"https://example.test"},
   ops |-> CatalogOps, args |-> ArgLists,
   customUrls |-> CustomUrls, customBodies |-> CustomBodies,
   replies |-> {Reply(200, EmptyObj, EmptyObj)}]

DispatchNext == LibNext(DispatchInputs)

DispatchSpec == Init /\ [][DispatchNext]_vars

(* ---------------------------------------------------------------------- *)
(* The mocha harness (test suite): constants and test data                 *)
(* ---------------------------------------------------------------------- *)
MAX_RETRIES == 10

RETRY_TIMEOUT == 10000

WITHDRAWAL_TIMEOUT == 1 * 60 * 1000

MOCHA_TIMEOUT == WITHDRAWAL_TIMEOUT + 10000

SKILL_READY == [v0 |-> "SUCCESSFUL", v1 |-> "SUCCEEDED"]

MODEL_READY == [v0 |-> "SUCCESS", v1 |-> "SUCCEEDED"]

\* the client `describe` builds for TEST_VERSION
SuiteClient(v) == IF v = VERSION_0 THEN "A" ELSE "B"

\* testData: the fields the tests fill in are undefined at first
TestDataInit ==
  [vendorId |-> Undefined, skillId |-> Undefined, validationId |-> Undefined]

\* the path of the build status in a status response, per version; a nested
\* path a.b.c of a JSON body is the key "a.b.c" of the flat object
SkillStatusPath(v) ==
  IF v = VERSION_0 THEN "manifest.lastModified.status"
  ELSE "manifest.lastUpdateRequest.status"

ModelStatusPath(v) ==
  IF v = VERSION_0 THEN "status"
  ELSE "interactionModel.en-US.lastUpdateRequest.status"

ModelETagPath == "interactionModel.en-US.eTag"

\* the tests of one `describe('Testing with SMAPI ' + TEST_VERSION)`, in order
Suite(v) ==
  IF v = VERSION_0
  THEN <<"refresh token", "Get Vendor List", "Create a skill", "List skills",
         "Get the status of a skill", "Get Skill Information",
         "Update an existing skill", "Get the status of a skill (2)",
         "Update Interaction Model", "Get the Interaction Model Building Status",
         "Head Interaction Model", "Get Interaction Model",
         "Update Account Linking", "Read Account Linking Info",
         "Enable a skill", "Check enablement status of a skill", "Disable a skill",
         "custom head", "custom post put", "custom get", "custom put",
         "Submit a skill for certification",
         "Withdraw a skill from certification", "Delete a skill">>
  ELSE <<"refresh token", "Get Vendor List", "Create a skill", "List skills",
         "Get the status of a skill", "Get Skill Information",
         "Update an existing skill", "Get the status of a skill (2)",
         "Update Interaction Model", "Get the Interaction Model Building Status",
         "Head Interaction Model", "Get Interaction Model",
         "Update Account Linking", "Read Account Linking Info",
         "Delete Account Linking",
         "Enable a skill", "Check enablement status of a skill", "Disable a skill",
         "Validate a skill", "Check validation status of a skill",
         "custom head", "custom post put", "custom get", "custom put",
         "custom delete",
         "Submit a skill for certification", "Check skill certification status",
         "Withdraw a skill from certification", "Delete a skill">>

\* the catalog operation a test's beforeEach calls ("custom" and
\* "tokens.refresh" are called through their own actions)
TestOp(t) ==
  CASE t = "refresh token" -> "tokens.refresh"
    [] t = "Get Vendor List" -> "vendors.list"
    [] t = "Create a skill" -> "skills.create"
    [] t = "List skills" -> "skills.list"
    [] t \in {"Get the status of a skill", "Get the status of a skill (2)"} -> "skills.status"
    [] t = "Get Skill Information" -> "skills.getManifest"
    [] t = "Update an existing skill" -> "skills.update"
    [] t = "Update Interaction Model" -> "interactionModel.update"
    [] t = "Get the Interaction Model Building Status" -> "interactionModel.getStatus"
    [] t = "Head Interaction Model" -> "interactionModel.getEtag"
    [] t = "Get Interaction Model" -> "interactionModel.get"
    [] t = "Update Account Linking" -> "accountLinking.update"
    [] t = "Read Account Linking Info" -> "accountLinking.readInfo"
    [] t = "Delete Account Linking" -> "accountLinking.delete"
    [] t \in {"Enable a skill", "Disable a skill"} -> "skillEnablement.enable"
    [] t = "Check enablement status of a skill" -> "skillEnablement.status"
    [] t = "Validate a skill" -> "skillTesting.validate"
    [] t = "Check validation status of a skill" -> "skillTesting.validationStatus"
    [] t = "Submit a skill for certification" -> "skillCertification.submit"
    [] t = "Check skill certification status" -> "skillCertification.status"
    [] t = "Withdraw a skill from certification" -> "skillCertification.withdraw"
    [] t = "Delete a skill" -> "skills.delete"
    [] OTHER -> "custom"

\* the arguments beforeEach passes, from testData d
TestArgs(t, v, d) ==
  LET legacy == v = VERSION_0
  IN CASE t = "Get Vendor List" -> <<>>
       [] t = "Create a skill" -> <<d.vendorId, "skillManifest">>
       [] t = "List skills" -> <<d.vendorId, "10">>
       [] t \in {"Get the status of a skill", "Get the status of a skill (2)"} ->
            <<d.skillId>>
       [] t = "Get Skill Information" ->
            IF legacy THEN <<d.skillId>> ELSE <<d.skillId, "development">>
       [] t = "Update an existing skill" ->
            IF legacy THEN <<d.skillId, "skillManifest">>
            ELSE <<d.skillId, "development", "skillManifest">>
       [] t = "Update Interaction Model" ->
            IF legacy THEN <<d.skillId, "en-US", "interactionModel">>
            ELSE <<d.skillId, "development", "en-US", "interactionModel">>
       [] t = "Get the Interaction Model Building Status" -> <<d.skillId, "en-US">>
       [] t \in {"Head Interaction Model", "Get Interaction Model"} ->
            IF legacy THEN <<d.skillId, "en-US">> ELSE <<d.skillId, "development", "en-US">>
       [] t = "Update Account Linking" ->
            IF legacy THEN <<d.skillId, "accountLinkingRequest">>
            ELSE <<d.skillId, "development", "accountLinkingRequest">>
       [] t = "Read Account Linking Info" ->
            IF legacy THEN <<d.skillId>> ELSE <<d.skillId, "development">>
       [] t \in {"Delete Account Linking", "Enable a skill", "Disable a skill",
                 "Check enablement status of a skill"} -> <<d.skillId, "development">>
       [] t = "Validate a skill" -> <<d.skillId, "development", "locales">>
       [] t = "Check validation status of a skill" ->
            <<d.skillId, "development", d.validationId>>
       [] t = "Submit a skill for certification" -> <<d.skillId>>
       [] t = "Check skill certification status" -> <<d.vendorId, d.skillId>>
       [] t = "Withdraw a skill from certification" -> <<d.skillId, "reason", "message">>
       [] t = "Delete a skill" -> <<d.skillId>>
       [] OTHER -> <<>>

\* the tests of the "Custom Operations" context: verb, url and parameters
CustomVerb(t, v) ==
  CASE t = "custom head" -> "HEAD"
    [] t = "custom post put" -> IF v = VERSION_0 THEN "POST" ELSE "PUT"
    [] t = "custom get" -> "GET"
    [] t = "custom put" -> "PUT"
    [] t = "custom delete" -> "DELETE"

CustomUrl(t, v, d) ==
  LET model == [v0 |-> <<"v0", "skills", Interp(d.skillId), "interactionModel", "locales",
                         "en-US">>,
                v1 |-> <<"v1", "skills", Interp(d.skillId), "stages", "development",
                         "interactionModel", "locales", "en-US">>]
      status == [v0 |-> <<"v0", "skills", Interp(d.skillId), "interactionModel", "locales",
                          "en-US", "status">>,
                 v1 |-> <<"v1", "skills", Interp(d.skillId),
                          "status?resource=interactionModel">>]
      linking == [v0 |-> <<"v0", "skills", Interp(d.skillId), "accountLinkingClient">>,
                  v1 |-> <<"v1", "skills", Interp(d.skillId), "stages", "development",
                           "accountLinkingClient">>]
  IN CASE t \in {"custom head", "custom post put"} -> model[v]
       [] t = "custom get" -> status[v]
       [] t = "custom put" -> linking[v]
       [] t = "custom delete" -> linking["v1"]

CustomParameters(t) ==
  CASE t = "custom post put" -> [interactionModel |-> "interactionModel"]
    [] t = "custom put" -> [accountLinkingRequest |-> "accountLinkingRequest"]
    [] OTHER -> NoParameters

\* the fulfilment handler `it` attaches to the subject
TestOnFulfilled(t) ==
  CASE t \in {"Get the status of a skill", "Get the status of a skill (2)"} -> "waitOnSkill"
    [] t \in {"Get the Interaction Model Building Status", "custom get"} -> "waitOnModel"
    [] t = "Get Vendor List" -> "setVendorId"
    [] t = "Create a skill" -> "setSkillId"
    [] t = "Validate a skill" -> "setValidationId"
    [] t = "Check skill certification status" -> "firstSkill"
    [] OTHER -> "showResponse"

\* the rejection handler `it` attaches to the subject
TestOnRejected(t) ==
  IF t = "Withdraw a skill from certification" THEN "waitOnCertification" ELSE "retry"

(* ---------------------------------------------------------------------- *)
(* The handlers of the tests: retry, waitOnCertification, waitOnSkill,     *)
(* waitOnModel                                                             *)
(* ---------------------------------------------------------------------- *)
\* what a handler leaves: the settled subject, the time it slept first, and
\* testData
Handled(subject, sleepMs, data) == [subject |-> subject, sleepMs |-> sleepMs, data |-> data]

\* sleep(ms).then(x => x): the timer resolves with no value
ResolvedUndefined == [state |-> "resolved", defined |-> FALSE, value |-> EmptyObj]

\* a handler threw (reading a property of undefined)
RejectedTypeError ==
  [state |-> "rejected", defined |-> TRUE, value |-> [message |-> "TypeError"]]

errorSummary(error) ==
  [status |-> error.status, statusText |-> error.statusText, data |-> error.data]

\* a retry that reports the rate-limit error without backing off
retryWithoutBackoff(outcome, d) ==
  IF ~outcome.defined THEN Handled(RejectedTypeError, 0, d)
  ELSE Handled(Resolved(errorSummary(outcome.value)), 0, d)

retry(outcome, d) ==
  IF ~outcome.defined THEN Handled(RejectedTypeError, 0, d)
  ELSE LET summary == errorSummary(outcome.value)
       IN IF summary.status = 429
          THEN Handled(ResolvedUndefined, RETRY_TIMEOUT, d)
          ELSE Handled(Resolved(summary), 0, d)

\* a long wait that backs off on the rate-limit status only
waitOnCertificationOn429(outcome, d) ==
  IF ~outcome.defined THEN Handled(RejectedTypeError, 0, d)
  ELSE LET summary == errorSummary(outcome.value)
       IN IF summary.status = 429
          THEN Handled(ResolvedUndefined, WITHDRAWAL_TIMEOUT, d)
          ELSE Handled(Resolved(summary), 0, d)

waitOnCertification(outcome, d) ==
  IF ~outcome.defined THEN Handled(RejectedTypeError, 0, d)
  ELSE LET summary == errorSummary(outcome.value)
       IN IF summary.status # 200
          THEN Handled(ResolvedUndefined, WITHDRAWAL_TIMEOUT, d)
          ELSE Handled(Resolved(summary), 0, d)

\* a skill poll that knows the success literal of the newest version only
waitOnSkillNewestLiteral(v, response, d) ==
  IF SkillStatusPath(v) \notin DOMAIN response THEN Handled(RejectedTypeError, 0, d)
  ELSE IF response[SkillStatusPath(v)] # SKILL_READY[DEFAULT_VERSION]
       THEN Handled(ResolvedUndefined, RETRY_TIMEOUT, d)
       ELSE Handled(Resolved(response), 0, d)

waitOnSkill(v, response, d) ==
  IF SkillStatusPath(v) \notin DOMAIN response THEN Handled(RejectedTypeError, 0, d)
  ELSE IF response[SkillStatusPath(v)] # SKILL_READY[v]
       THEN Handled(ResolvedUndefined, RETRY_TIMEOUT, d)
       ELSE Handled(Resolved(response), 0, d)

waitOnModel(v, response, d) ==
  IF ModelStatusPath(v) \notin DOMAIN response THEN Handled(RejectedTypeError, 0, d)
  ELSE LET response1 == IF v = VERSION_1 THEN DeleteKey(response, ModelETagPath)
                        ELSE response
       IN IF response[ModelStatusPath(v)] # MODEL_READY[v]
          THEN Handled(ResolvedUndefined, RETRY_TIMEOUT, d)
          ELSE Handled(Resolved(response1), 0, d)

\* response.skills[0] of "Check skill certification status"
FirstSkill(response) ==
  [k \in {j \in {"publicationStatus", "skillId", "stage"} :
            ("skills[0]." \o j) \in DOMAIN response} |-> response["skills[0]." \o k]]

\* subject.then(onFulfilled, onRejected) of test t on the library's outcome
Handle(t, v, outcome, d) ==
  IF outcome.state = "rejected"
  THEN IF TestOnRejected(t) = "retry" THEN retry(outcome, d)
       ELSE waitOnCertification(outcome, d)
  ELSE LET response == outcome.value
           on == TestOnFulfilled(t)
       IN CASE on = "waitOnSkill" -> waitOnSkill(v, response, d)
            [] on = "waitOnModel" -> waitOnModel(v, response, d)
            [] on = "setVendorId" ->
                 IF "vendors[0].id" \notin DOMAIN response
                 THEN Handled(RejectedTypeError, 0, d)
                 ELSE Handled(Resolved(response), 0,
                              [d EXCEPT !.vendorId = response["vendors[0].id"]])
            [] on = "setSkillId" ->
                 Handled(Resolved(response), 0,
                         [d EXCEPT !.skillId = Get(response, "skillId")])
            [] on = "setValidationId" ->
                 Handled(Resolved(response), 0,
                         [d EXCEPT !.validationId = Get(response, "id")])
            [] on = "firstSkill" ->
                 IF "skills" \notin DOMAIN response THEN Handled(RejectedTypeError, 0, d)
                 ELSE Handled(Resolved(FirstSkill(response)), 0, d)
            [] OTHER -> Handled(Resolved(response), 0, d)

\* the properties expect(subject).to.eventually.have.property names, per test
ExpectedProperties(t, v) ==
  CASE t = "refresh token" -> {"access_token"}
    [] t = "Get Vendor List" -> {"vendors"}
    [] t = "Create a skill" -> {"skillId", "location"}
    [] t = "List skills" -> {"_links", "isTruncated", "skills"}
    [] t = "Get Skill Information" ->
         IF v = VERSION_0 THEN {"skillManifest"} ELSE {"manifest"}
    [] t \in {"Update an existing skill", "Update Interaction Model", "custom post put"} ->
         {"location", "etag"}
    [] t \in {"Head Interaction Model", "Update Account Linking", "custom head",
              "custom put"} -> {"etag"}
    [] t = "Get Interaction Model" -> {"interactionModel"}
    [] t = "Read Account Linking Info" -> {"accountLinkingResponse"}
    [] t = "Validate a skill" -> {"id"}
    [] t = "Check validation status of a skill" -> {"status"}
    [] t = "Submit a skill for certification" -> {"location"}
    [] OTHER -> {}

\* the assertion of test t on a subject that resolved with `value`
Expectation(t, v, d, value) ==
  CASE t \in {"Get the status of a skill", "Get the status of a skill (2)"} ->
         Get(value, SkillStatusPath(v)) = SKILL_READY[v]
    [] t \in {"Get the Interaction Model Building Status", "custom get"} ->
         IF v = VERSION_0
         THEN \* the numeric status of an error summary never equals the string
              "statusText" \notin DOMAIN value /\ Get(value, "status") = MODEL_READY[v]
         ELSE value = (ModelStatusPath(v) :> MODEL_READY[v])
    [] t \in {"Delete Account Linking", "Check enablement status of a skill",
              "custom delete", "Delete a skill"} -> value = EmptyObj
    [] t \in {"Enable a skill", "Disable a skill",
              "Withdraw a skill from certification"} ->
         value = [location |-> Undefined, etag |-> Undefined]
    [] t = "Check skill certification status" ->
         /\ Get(value, "publicationStatus") = "CERTIFICATION"
         /\ "skillId" \in DOMAIN value /\ value["skillId"] = d.skillId
         /\ Get(value, "stage") = "development"
    [] OTHER -> ExpectedProperties(t, v) \subseteq DOMAIN value

\* the test passes: the subject resolved with a value that meets the assertion
TestPasses(t, v, d, subject) ==
  /\ subject.state = "resolved"
  /\ subject.defined
  /\ Expectation(t, v, d, subject.value)

(* ---------------------------------------------------------------------- *)
(* What the server answers to the tests                                    *)
(* ---------------------------------------------------------------------- *)
FullHeaders == [location |-> "hdr-location", etag |-> "hdr-etag"]

\* the body with which the test's operation has done its work
GoodBody(t, v) ==
  CASE t = "refresh token" -> [access_token |-> "Atza|one", token_type |-> "bearer"]
    [] t = "Get Vendor List" -> [vendors |-> "array"] @@ ("vendors[0].id" :> "vendor-1")
    [] t = "Create a skill" -> [skillId |-> "skill-1"]
    [] t = "List skills" -> [_links |-> "object", isTruncated |-> "false", skills |-> "array"]
    [] t \in {"Get the status of a skill", "Get the status of a skill (2)"} ->
         (SkillStatusPath(v) :> SKILL_READY[v])
    [] t = "Get Skill Information" -> [skillManifest |-> "object", manifest |-> "object"]
    [] t \in {"Get the Interaction Model Building Status", "custom get"} ->
         IF v = VERSION_0 THEN (ModelStatusPath(v) :> MODEL_READY[v])
         ELSE (ModelStatusPath(v) :> MODEL_READY[v]) @@ (ModelETagPath :> "etag-1")
    [] t = "Get Interaction Model" -> [interactionModel |-> "object"]
    [] t = "Read Account Linking Info" -> [accountLinkingResponse |-> "object"]
    [] t = "Validate a skill" -> [id |-> "validation-1", status |-> "IN_PROGRESS"]
    [] t = "Check validation status of a skill" -> [id |-> "validation-1", status |-> "SUCCESSFUL"]
    [] t = "Check skill certification status" ->
         [skills |-> "array"] @@ ("skills[0].publicationStatus" :> "CERTIFICATION")
           @@ ("skills[0].skillId" :> "skill-1") @@ ("skills[0].stage" :> "development")
    [] OTHER -> EmptyObj

\* the body of a status response while the build is still running
BuildingBody(t, v) ==
  IF t \in {"Get the status of a skill", "Get the status of a skill (2)"}
  THEN (SkillStatusPath(v) :> "IN_PROGRESS")
  ELSE IF v = VERSION_0 THEN (ModelStatusPath(v) :> "IN_PROGRESS")
       ELSE (ModelStatusPath(v) :> "IN_PROGRESS") @@ (ModelETagPath :> "etag-1")

PollTests ==
  {"Get the status of a skill", "Get the status of a skill (2)",
   "Get the Interaction Model Building Status", "custom get"}

\* the operations that answer 204 No Content without location or etag
NoContentTests ==
  {"Enable a skill", "Disable a skill", "Withdraw a skill from certification"}

GoodHeaders(t) == IF t \in NoContentTests THEN EmptyObj ELSE FullHeaders

\* what the transport may answer to the request of test t
HarnessReplies(t, v) ==
  {Reply(200, GoodHeaders(t), GoodBody(t, v))}
    \cup (IF t \in NoContentTests THEN {Reply(204, EmptyObj, EmptyObj)} ELSE {})
    \cup (IF t \in PollTests THEN {Reply(200, FullHeaders, BuildingBody(t, v))} ELSE {})
    \cup {Reply(429, EmptyObj, ErrorBody), Reply(400, EmptyObj, ErrorBody), NetworkError}

(* ---------------------------------------------------------------------- *)
(* The mocha runner: beforeEach, the test, this.retries(MAX_RETRIES)       *)
(* ---------------------------------------------------------------------- *)
NoSubject == [state |-> "pending", defined |-> FALSE, value |-> EmptyObj]

NoAttempt == [issued |-> {}, rejected |-> 0, sleepMs |-> 0]

\* the runner at the first attempt of test number n of the suite of version v
AtTest(v, n, d, verdict) ==
  [pc |-> "beforeEach", version |-> v, test |-> n, attempt |-> 0,
   subject |-> NoSubject, sleepMs |-> 0, data |-> d, issued |-> {}, rejected |-> 0,
   prev |-> NoAttempt, verdict |-> verdict]

\* the runner moves on to the next test, the next suite, or stops
Advance(hh, verdict) ==
  IF hh.test < Len(Suite(hh.version))
  THEN AtTest(hh.version, hh.test + 1, hh.data, verdict)
  ELSE IF hh.version = VERSION_0
       THEN AtTest(VERSION_1, 1, hh.data, verdict)
       ELSE [AtTest(hh.version, hh.test, hh.data, verdict) EXCEPT !.pc = "done"]

CurrentTest == Suite(h.version)[h.test]

\* both describe blocks have run: one client per version; the runner is at
\* the first test of the first suite
HarnessInit ==
  /\ smapi = [c \in Clients |->
                Built([version |-> IF c = SuiteClient(VERSION_0) THEN VERSION_0
                                   ELSE VERSION_1])]
  /\ axiosDefaults = [Authorization |-> Undefined, baseURL |-> Undefined]
  /\ pending = {}
  /\ last = {}
  /\ callerParams = FullParams
  /\ h = AtTest(VERSION_0, 1, TestDataInit, "none")

\* beforeEach: the operation under test is called
BeforeEach ==
  /\ h.pc = "beforeEach"
  /\ LET v == h.version
         t == CurrentTest
         c == SuiteClient(v)
     IN \/ TestOp(t) = "tokens.refresh" /\ CallRefresh(c)
        \/ /\ TestOp(t) = "custom"
           /\ CallCustom(c, CustomVerb(t, v), CustomUrl(t, v, h.data), CustomParameters(t))
        \/ /\ TestOp(t) \in CatalogOps
           /\ CallCatalog(c, TestOp(t), TestArgs(t, v, h.data))
  /\ h' = [h EXCEPT !.pc = "awaiting", !.issued = pending', !.subject = NoSubject,
                    !.sleepMs = 0, !.rejected = 0]

\* the transport answers; the library's chain and the handlers of the test run
Answer(reply) ==
  /\ h.pc = "awaiting"
  /\ Settle(reply)
  /\ LET l == CHOOSE x \in last' : TRUE
         res == Handle(CurrentTest, h.version, l.outcome, h.data)
     IN h' = [h EXCEPT !.pc = IF res.sleepMs > 0 THEN "sleeping" ELSE "asserting",
                       !.subject = IF res.sleepMs > 0 THEN NoSubject ELSE res.subject,
                       !.sleepMs = res.sleepMs,
                       !.data = res.data,
                       !.rejected = IF l.outcome.state = "rejected" /\ l.outcome.defined
                                    THEN l.outcome.value.status ELSE 0]

\* the timer of sleep(ms) fires: the subject resolves with undefined
Wake ==
  /\ h.pc = "sleeping"
  /\ h' = [h EXCEPT !.pc = "asserting", !.subject = ResolvedUndefined]
  /\ UNCHANGED <<smapi, axiosDefaults, pending, last, callerParams>>

\* a runner that never gives a failed test up
CheckExpectationNoBudget ==
  /\ h.pc = "asserting"
  /\ h' = IF TestPasses(CurrentTest, h.version, h.data, h.subject)
          THEN Advance(h, "passed")
          ELSE [h EXCEPT !.pc = "beforeEach",
                         !.attempt = IF @ < MAX_RETRIES THEN @ + 1 ELSE @,
                         !.prev = [issued |-> h.issued, rejected |-> h.rejected,
                                   sleepMs |-> h.sleepMs]]
  /\ UNCHANGED <<smapi, axiosDefaults, pending, last, callerParams>>

\* the assertion is evaluated; a failed test is run again, its beforeEach
\* included, while it has retries left
CheckExpectation ==
  /\ h.pc = "asserting"
  /\ h' = IF TestPasses(CurrentTest, h.version, h.data, h.subject)
          THEN Advance(h, "passed")
          ELSE IF h.attempt < MAX_RETRIES
               THEN [h EXCEPT !.pc = "beforeEach", !.attempt = @ + 1,
                              !.prev = [issued |-> h.issued, rejected |-> h.rejected,
                                        sleepMs |-> h.sleepMs]]
               ELSE Advance(h, "failed")
  /\ UNCHANGED <<smapi, axiosDefaults, pending, last, callerParams>>

HarnessNext ==
  \/ BeforeEach
  \/ \E r \in HarnessReplies(CurrentTest, h.version) : Answer(r)
  \/ Wake
  \/ CheckExpectation

HarnessSpec == HarnessInit /\ [][HarnessNext]_vars

\* the run of the suite when every request is eventually answered, every
\* timer eventually fires and the runner keeps running
HarnessFairSpec == HarnessSpec /\ WF_vars(HarnessNext)

(* ---------------------------------------------------------------------- *)
(* Properties                                                              *)
(* ---------------------------------------------------------------------- *)
IsSuccess(reply) == ~reply.neterr /\ reply.status \in 200..299

\* an operation completes in this step
Completes(l) == l \in last' /\ l \notin last

\* C1: the version of a client is params.version when that is v0 or v1 and
\* v1 otherwise, whatever params is (absent, without version, unsupported
\* version); and no step of any operation changes the version of a built client.
C1_VersionFixedAtConstruction ==
  [][\A c \in Clients :
       /\ smapi'[c].built =>
            smapi'[c].version =
              IF Get(smapi'[c].params, "version") \in {"v0", "v1"}
              THEN Get(smapi'[c].params, "version") ELSE "v1"
       /\ smapi[c].built =>
            smapi'[c].built /\ smapi'[c].version = smapi[c].version]_vars

\* a client built with an unsupported version has become v1 and has completed
\* an operation since
C1_Witness ==
  \E c \in Clients :
    /\ smapi[c].built
    /\ Get(smapi[c].params, "version") = "v2"
    /\ smapi[c].version = "v1"
    /\ \E l \in last : l.client = c /\ l.op = "skills.update"

\* C2: the base URL of a client's transport is the table entry of
\* params.region when the region is NA, EU or FE and the NA base URL for an
\* absent region and for every other region value; it is always one of the
\* three table URLs.
C2_RegionFallsBackToPrimary ==
  \A c \in Clients :
    smapi[c].built =>
      LET region == Get(smapi[c].params, "region")
      IN /\ smapi[c].baseURL =
              IF region \in {"NA", "EU", "FE"} THEN BASE_URLS[region] ELSE BASE_URLS["NA"]
         /\ smapi[c].baseURL \in {BASE_URLS[r] : r \in DOMAIN BASE_URLS}

\* C3: a successful HEAD or PUT resolves with exactly {location, etag} read
\* from the response headers: no key of the body is in the result, and an
\* absent header gives undefined for its field.
C3_HeadPutHeadersOnly ==
  \A l \in last :
    (l.verb \in {"HEAD", "PUT"} /\ IsSuccess(l.reply)) =>
      /\ l.outcome.state = "resolved"
      /\ DOMAIN l.outcome.value = {"location", "etag"}
      /\ \A k \in {"location", "etag"} :
           l.outcome.value[k] =
             IF k \in DOMAIN l.reply.headers THEN l.reply.headers[k] ELSE Undefined

\* skillEnablement.enable (a PUT) has succeeded on a reply that carries a
\* body with a location key and no location header
C3_Witness ==
  \E l \in last :
    /\ l.op = "skillEnablement.enable"
    /\ l.outcome.state = "resolved"
    /\ "location" \in DOMAIN l.reply.data
    /\ "location" \notin DOMAIN l.reply.headers
    /\ l.outcome.value["location"] = Undefined

\* C4: a successful rest.post resolves with {location, etag} from the headers
\* merged with the keys of the body, the body's value winning on a key named
\* location or etag.
C4_PostMergesBodyOverHeaders ==
  \A l \in last :
    (l.verb = "POST" /\ l.op # "tokens.refresh" /\ IsSuccess(l.reply)) =>
      /\ l.outcome.state = "resolved"
      /\ DOMAIN l.outcome.value = {"location", "etag"} \cup DOMAIN l.reply.data
      /\ \A k \in DOMAIN l.reply.data : l.outcome.value[k] = l.reply.data[k]
      /\ \A k \in {"location", "etag"} \ DOMAIN l.reply.data :
           l.outcome.value[k] =
             IF k \in DOMAIN l.reply.headers THEN l.reply.headers[k] ELSE Undefined

\* skills.create has succeeded on a reply with a location header and a body
\* that has its own location and a skillId
C4_Witness ==
  \E l \in last :
    /\ l.op = "skills.create"
    /\ l.outcome.state = "resolved"
    /\ Get(l.reply.headers, "location") = "hdr-location"
    /\ Get(l.reply.data, "location") = "body-location"
    /\ Get(l.reply.data, "skillId") = "skill-1"
    /\ l.outcome.value["location"] = "body-location"
    /\ l.outcome.value["skillId"] = "skill-1"

\* C5: whenever the transport has answered a call of rest.<verb> or of
\* tokens.refresh and the call did not resolve, the call is rejected with a
\* defined value that has the fields status, statusText and data; a non-2xx
\* answer never resolves.
C5_FailuresAreOperationErrors ==
  \A l \in last :
    (l.verb # "none" /\ ~l.reply.neterr) =>
      /\ ~IsSuccess(l.reply) => l.outcome.state = "rejected"
      /\ l.outcome.state = "rejected" =>
           /\ l.outcome.defined
           /\ {"status", "statusText", "data"} \subseteq DOMAIN l.outcome.value

\* C6: under v0, interactionModel.update(skillId, locale, payload) issues the
\* request of custom.post('/v0/skills/{skillId}/interactionModel/locales/
\* {locale}', {interactionModel: payload}): same verb, URL, body and base URL.
C6_LegacyModelUpdateIsCustomPost ==
  \A f \in pending :
    (f.op = "interactionModel.update" /\ smapi[f.client].version = "v0") =>
      /\ f.req =
           custom_post(<<"v0", "skills", Interp(Param(f.args, 1)), "interactionModel",
                         "locales", Interp(Param(f.args, 2))>>,
                       [interactionModel |-> Param(f.args, 3)])
      /\ f.baseURL = smapi[f.client].baseURL

\* a v0 client has called interactionModel.update(skillId, locale, payload)
C6_Witness ==
  \E f \in pending :
    /\ f.op = "interactionModel.update"
    /\ smapi[f.client].version = "v0"
    /\ Len(f.args) = 3
    /\ f.req.verb = "POST"
    /\ f.req.data = [interactionModel |-> "arg3"]

\* C7: under v0, skills.update(skillId, manifest) PUTs to /v0/skills/{skillId}
\* with body {skillManifest: manifest}; under v1, skills.update(skillId,
\* stage, manifest) PUTs to /v1/skills/{skillId}/stages/{stage}/manifest with
\* body {manifest}; a successful skills.update has the properties location and
\* etag in its result.
C7_SkillUpdateRouting ==
  /\ \A f \in pending :
       f.op = "skills.update" =>
         /\ (smapi[f.client].version = "v0" /\ Len(f.args) = 2) =>
              /\ f.req.verb = "PUT"
              /\ f.req.url = <<"v0", "skills", f.args[1]>>
              /\ f.req.data = [skillManifest |-> f.args[2]]
         /\ (smapi[f.client].version = "v1" /\ Len(f.args) = 3) =>
              /\ f.req.verb = "PUT"
              /\ f.req.url = <<"v1", "skills", f.args[1], "stages", f.args[2], "manifest">>
              /\ f.req.data = [manifest |-> f.args[3]]
  /\ \A l \in last :
       (l.op = "skills.update" /\ IsSuccess(l.reply)) =>
         /\ l.outcome.state = "resolved"
         /\ {"location", "etag"} \subseteq DOMAIN l.outcome.value

\* a v0 client's skills.update(skillId, manifest) has succeeded
C7_Witness ==
  \E l \in last :
    /\ l.op = "skills.update"
    /\ smapi[l.client].version = "v0"
    /\ Len(l.args) = 2
    /\ l.outcome.state = "resolved"

\* C8: a tokens.refresh whose reply is 2xx with a usable access_token
\* resolves with the reply body and leaves that access_token as the
\* Authorization credential; a tokens.refresh that is rejected leaves the
\* credential as it was; every request carries the credential of the moment
\* it is issued; and the credential changes only when a tokens.refresh
\* succeeds or a refreshToken(token) returns, to the token of that call.
C8_RefreshSetsCredential ==
  [][/\ \A l \in last' :
          (Completes(l) /\ l.op = "tokens.refresh") =>
            /\ (IsSuccess(l.reply) /\ Get(l.reply.data, "access_token") \in Tokens) =>
                 l.outcome.state = "resolved"
            /\ l.outcome.state = "resolved" =>
                 /\ l.outcome.value = l.reply.data
                 /\ axiosDefaults'.Authorization = Get(l.reply.data, "access_token")
            /\ l.outcome.state # "resolved" =>
                 axiosDefaults'.Authorization = axiosDefaults.Authorization
     /\ \A f \in pending' :
          f \notin pending => f.auth = axiosDefaults.Authorization
     /\ axiosDefaults'.Authorization # axiosDefaults.Authorization =>
          \E l \in last' :
            \/ /\ l.op = "tokens.refresh"
               /\ l.outcome.state = "resolved"
               /\ axiosDefaults'.Authorization = Get(l.reply.data, "access_token")
            \/ /\ l.op = "refreshToken"
               /\ l.outcome.state = "returned"
               /\ axiosDefaults'.Authorization = l.args[1]]_vars

\* a tokens.refresh has resolved with a token that replaced another one
C8_Witness ==
  \E l \in last :
    /\ l.op = "tokens.refresh"
    /\ l.outcome.state = "resolved"
    /\ Get(l.reply.data, "access_token") = "Atza|two"
    /\ axiosDefaults.Authorization = "Atza|two"

\* C9: a refreshToken or tokens.refresh on one instance never changes the
\* Authorization header the requests of another instance carry, and an
\* instance starts with its credential unset whatever earlier instances did.
C9_CredentialOwnedByInstance ==
  [][\A b \in Clients :
       /\ (smapi[b].built /\ \E l \in last' :
                               /\ Completes(l)
                               /\ l.client # b
                               /\ l.op \in {"refreshToken", "tokens.refresh"}) =>
            RequestAuthorization(b)' = RequestAuthorization(b)
       /\ (~smapi[b].built /\ smapi'[b].built) =>
            RequestAuthorization(b)' = Undefined]_vars

\* the verb, URL, query parameters and body of the requests in a set
Requests(S) == {p.req : p \in S}

\* C10 (as the code has it): a 429 answer to an operation whose rejection
\* handler is retry, while the test has retries left, makes the handler sleep
\* RETRY_TIMEOUT; nothing is sent while it sleeps or while the assertion is
\* evaluated; the same test is then run again, and its beforeEach issues
\* exactly one request, with the verb, URL and parameters of the one that was
\* answered 429
C10_RateLimitRetriedOnce ==
  [][/\ (h.pc = "awaiting" /\ h'.rejected = 429
           /\ TestOnRejected(CurrentTest) = "retry")
          => (h'.pc = "sleeping" /\ h'.sleepMs = RETRY_TIMEOUT)
     /\ (h.pc \in {"sleeping", "asserting"} /\ h.rejected = 429)
          => (pending = {} /\ pending' = {})
     /\ (h.pc = "asserting" /\ h.rejected = 429
           /\ TestOnRejected(CurrentTest) = "retry" /\ h.attempt < MAX_RETRIES)
          => /\ h.sleepMs = RETRY_TIMEOUT
             /\ h'.pc = "beforeEach"
             /\ h'.version = h.version /\ h'.test = h.test
             /\ h'.attempt = h.attempt + 1
     /\ (h.pc = "beforeEach" /\ h.prev.rejected = 429)
          => /\ Cardinality(pending') = 1
             /\ Requests(pending') = Requests(h.prev.issued)
             /\ \A p \in pending' : \A q \in h.prev.issued : p.args = q.args
    ]_vars

\* C10 witness: the request answered 429 has been issued again after the
\* RETRY_TIMEOUT sleep
C10_Witness ==
  /\ h.pc = "awaiting"
  /\ h.attempt = 1
  /\ h.prev.rejected = 429
  /\ h.prev.sleepMs = RETRY_TIMEOUT
  /\ pending # {}
  /\ Requests(pending) = Requests(h.prev.issued)

\* C10 (as stated): every 429 answer, to any operation and at any attempt, is
\* followed by the RETRY_TIMEOUT sleep and a retry of the operation
C10_EveryRateLimitRetried ==
  [][(h.pc = "asserting" /\ h.rejected = 429)
       => /\ h.sleepMs = RETRY_TIMEOUT
          /\ h'.pc = "beforeEach"
          /\ h'.version = h.version /\ h'.test = h.test
          /\ h'.attempt = h.attempt + 1
    ]_vars

\* the test whose rejection handler is waitOnCertification
Withdrawal == "Withdraw a skill from certification"

\* the reply the pending operation was last settled with
LastReply == (CHOOSE l \in last : TRUE).reply

\* this step reports the current test with the given verdict and leaves it
EndsTest(verdict) == h.pc = "asserting" /\ h'.attempt = 0 /\ h'.verdict = verdict

\* C11 (as the code has it): in the withdrawal test every rejection that
\* carries a response (axios rejects on non-2xx only, so its status is never
\* 200) makes waitOnCertification sleep WITHDRAWAL_TIMEOUT; while the test has
\* retries left the same withdraw request is then issued again, exactly once;
\* and the test ends passed only after a reply that axios resolved (any 2xx)
C11_WithdrawalLongWait ==
  [][CurrentTest = Withdrawal =>
       /\ (h.pc = "awaiting" /\ h'.rejected # 0)
            => /\ h'.rejected # 200
               /\ h'.pc = "sleeping"
               /\ h'.sleepMs = WITHDRAWAL_TIMEOUT
       /\ (h.pc = "asserting" /\ h.rejected # 0 /\ h.attempt < MAX_RETRIES)
            => /\ h'.pc = "beforeEach"
               /\ h'.version = h.version /\ h'.test = h.test
               /\ h'.attempt = h.attempt + 1
       /\ (h.pc = "beforeEach" /\ h.prev.rejected # 0)
            => /\ Cardinality(pending') = 1
               /\ Requests(pending') = Requests(h.prev.issued)
               /\ \A p \in pending' : p.op = "skillCertification.withdraw"
       /\ EndsTest("passed") => (last # {} /\ AxiosResolves(LastReply))
    ]_vars

\* C11 witness: a withdraw answered with a non-200 status has been issued
\* again after the WITHDRAWAL_TIMEOUT sleep
C11_Witness ==
  /\ CurrentTest = Withdrawal
  /\ h.pc = "awaiting"
  /\ h.attempt >= 1
  /\ h.prev.rejected = 400
  /\ h.prev.sleepMs = WITHDRAWAL_TIMEOUT
  /\ pending # {}
  /\ Requests(pending) = Requests(h.prev.issued)

\* C11 (as stated): the withdrawal test never ends on a reply whose status is
\* not 200: it has slept WITHDRAWAL_TIMEOUT and the test is run again
C11_NeverEndsBut200 ==
  [][(CurrentTest = Withdrawal /\ h.pc = "asserting" /\ last # {}
        /\ (LastReply.neterr \/ LastReply.status # 200))
       => /\ h.sleepMs = WITHDRAWAL_TIMEOUT
          /\ h'.pc = "beforeEach"
          /\ h'.version = h.version /\ h'.test = h.test
    ]_vars

\* C12: refreshToken(token) and setBaseUrl(url) with an argument that is not
\* a non-empty string throw at the call (no promise is created or settled) and
\* leave the Authorization credential, the default base URL and every
\* instance as they were; with a non-empty string they return normally
C12_InvalidConfigurationThrows ==
  [][last' # last =>
       \A l \in last' :
         l.op \in {"refreshToken", "setBaseUrl"} =>
           /\ pending' = pending
           /\ l.outcome.state \in {"thrown", "returned"}
           /\ l.args[1] \in {"", Undefined, NotAString} <=> l.outcome.state = "thrown"
           /\ l.outcome.state = "thrown" =>
                /\ axiosDefaults' = axiosDefaults
                /\ smapi' = smapi
           /\ (l.outcome.state = "returned" /\ l.op = "refreshToken") =>
                l.args[1] \in Tokens
    ]_vars

\* C12 witness: a refreshToken('') has thrown while a credential was set, and
\* the credential is still there
C12_Witness ==
  \E l \in last :
    /\ l.op = "refreshToken"
    /\ l.args[1] = ""
    /\ l.outcome.state = "thrown"
    /\ axiosDefaults.Authorization = "Atza|one"
    /\ axiosDefaults.baseURL = "https://example.test"

\* the build status a status check has read: the value at the version's path
\* of the body of a resolved reply
StatusSeen(t, v, reply) ==
  IF ~AxiosResolves(reply) THEN Undefined
  ELSE IF t \in {"Get the status of a skill", "Get the status of a skill (2)"}
       THEN Get(reply.data, SkillStatusPath(v))
       ELSE Get(reply.data, ModelStatusPath(v))

\* the success literal of the poll of test t under version v
StatusReady(t, v) ==
  IF t \in {"Get the status of a skill", "Get the status of a skill (2)"}
  THEN SKILL_READY[v] ELSE MODEL_READY[v]

\* C13 (as the code has it): in a build-status poll, for both versions,
\* (a) a resolved status check whose status at the version's path is the
\*     version's success literal is handed to the assertion at once, the test
\*     passes and the check is not issued again;
\* (b) a resolved status check with any other status makes the handler sleep
\*     RETRY_TIMEOUT and, while the test has retries left, the same status
\*     check is issued again, exactly once;
\* (c) the test passes only on a reply whose status is the success literal.
C13_BuildStatusPoll ==
  [][(CurrentTest \in PollTests) =>
       (/\ (h.pc = "awaiting" /\ h'.pc # "awaiting") =>
             \A l \in last' :
               /\ StatusSeen(CurrentTest, h.version, l.reply)
                      = StatusReady(CurrentTest, h.version) =>
                    /\ h'.pc = "asserting" /\ h'.sleepMs = 0
                    /\ TestPasses(CurrentTest, h.version, h'.data, h'.subject)
               /\ (AxiosResolves(l.reply)
                     /\ StatusSeen(CurrentTest, h.version, l.reply)
                          # StatusReady(CurrentTest, h.version)) =>
                    (h'.pc = "sleeping" /\ h'.sleepMs = RETRY_TIMEOUT)
        /\ (h.pc = "asserting" /\ last # {}
              /\ StatusSeen(CurrentTest, h.version, LastReply)
                   = StatusReady(CurrentTest, h.version)) =>
             EndsTest("passed")
        /\ (h.pc = "asserting" /\ last # {} /\ AxiosResolves(LastReply)
              /\ StatusSeen(CurrentTest, h.version, LastReply)
                   # StatusReady(CurrentTest, h.version)
              /\ h.attempt < MAX_RETRIES) =>
             (/\ h'.pc = "beforeEach"
              /\ h'.version = h.version /\ h'.test = h.test
              /\ h'.attempt = h.attempt + 1)
        /\ (h.pc = "beforeEach" /\ h.attempt > 0) =>
             (/\ Cardinality(pending') = 1
              /\ Requests(pending') = Requests(h.prev.issued))
        /\ EndsTest("passed") =>
             (/\ last # {}
              /\ StatusSeen(CurrentTest, h.version, LastReply)
                   = StatusReady(CurrentTest, h.version)))
    ]_vars

\* C13 witness: a v0 skill-status check that read IN_PROGRESS has been issued
\* again after the RETRY_TIMEOUT sleep, and this time it read SUCCESSFUL
C13_Witness ==
  /\ CurrentTest = "Get the status of a skill"
  /\ h.version = VERSION_0
  /\ h.pc = "asserting"
  /\ h.attempt >= 1
  /\ h.prev.rejected = 0
  /\ h.prev.sleepMs = RETRY_TIMEOUT
  /\ Requests(h.issued) = Requests(h.prev.issued)
  /\ last # {}
  /\ StatusSeen(CurrentTest, h.version, LastReply) = "SUCCESSFUL"

\* C13 (as stated): every status check that read a status other than the
\* success literal is followed by the RETRY_TIMEOUT sleep and by the same
\* status check again
C13_NotReadyAlwaysReissued ==
  [][(CurrentTest \in PollTests /\ h.pc = "asserting" /\ last # {}
        /\ AxiosResolves(LastReply)
        /\ StatusSeen(CurrentTest, h.version, LastReply)
             # StatusReady(CurrentTest, h.version))
       => /\ h.sleepMs = RETRY_TIMEOUT
          /\ h'.pc = "beforeEach"
          /\ h'.version = h.version /\ h'.test = h.test
    ]_vars

\* C14: the operation of the test that follows a build-status poll is in
\* flight only if that poll has ended with READY observed (its test passed),
\* also when the poll has used up its MAX_RETRIES retries
C14_DependentStartsAfterReady ==
  (/\ h.pc = "awaiting"
   /\ h.test > 1
   /\ Suite(h.version)[h.test - 1] \in PollTests)
    => h.verdict = "passed"

\* C15: when a build-status poll is at the assertion of its last allowed
\* attempt after a status check that read a non-terminal status, the subject
\* handed to the caller is resolved (not an error) with that status response
C15_ExhaustionSurfacesLastStatus ==
  (/\ CurrentTest \in PollTests
   /\ h.pc = "asserting"
   /\ h.attempt = MAX_RETRIES
   /\ last # {}
   /\ AxiosResolves(LastReply)
   /\ StatusSeen(CurrentTest, h.version, LastReply) = "IN_PROGRESS")
    => /\ h.subject.state = "resolved"
       /\ h.subject.defined
       /\ StatusSeen(CurrentTest, h.version, Reply(200, EmptyObj, h.subject.value))
            = "IN_PROGRESS"

\* C16: when requests are answered and timers fire, the operation of a test
\* is issued at most MAX_RETRIES + 1 times (attempt counts the re-runs), and
\* every test that is being run, the build-status, 429-backoff and withdrawal
\* polls included, is eventually left: the whole suite comes to its end
C16_EveryPollTerminates ==
  /\ [](h.attempt <= MAX_RETRIES)
  /\ [][h'.attempt > h.attempt => h'.attempt = h.attempt + 1]_vars
  /\ <>(h.pc = "done")

\* C16 witness: a build-status poll has used up its budget and the runner has
\* gone on to the next test
C16_Witness ==
  /\ h.test > 1
  /\ Suite(h.version)[h.test - 1] \in PollTests
  /\ h.attempt = 0
  /\ h.verdict = "failed"
  /\ h.pc = "beforeEach"
  /\ \E l \in last : l.op = "skills.status" /\ AxiosResolves(l.reply)

\* the operations whose URL is written with a literal /v1/ (lines 175, 183-185,
\* 190, 195-196, 206)
V1OnlyOps ==
  {"accountLinking.delete", "skillEnablement.enable", "skillEnablement.status",
   "skillEnablement.disable", "skillCertification.status", "skillTesting.validate",
   "skillTesting.validationStatus", "intentRequests.list"}

\* C17 (as the code has it): every catalog operation issues a request, for
\* both versions; its path starts with the client's own version, except for
\* the operations that exist for v1 only, whose path starts with v1 whatever
\* the client's version is; a v1 client never issues a request to a v0 path
C17_CatalogVersionPrefix ==
  \A f \in pending :
    f.op \in CatalogOps \cup {"intentRequests.list"} =>
      /\ f.req.verb \in Verbs
      /\ Len(f.req.url) >= 2
      /\ f.req.url[1] = IF f.op \in V1OnlyOps THEN VERSION_1
                        ELSE smapi[f.client].version

\* C17 witness: a v0 client has issued a request of a v1-only operation
C17_Witness ==
  \E f \in pending :
    /\ f.op = "skillEnablement.enable"
    /\ smapi[f.client].version = VERSION_0
    /\ f.req.url[1] = VERSION_1

\* C17 (as stated): every request of a catalog operation has a path that
\* starts with the version of the client that issued it
C17_OwnVersionPrefix ==
  \A f \in pending :
    f.op \in CatalogOps \cup {"intentRequests.list"} =>
      f.req.url[1] = smapi[f.client].version

\* C18: the caller's params object still holds skillId after any number of
\* intentRequests.list(params) calls, and every one of those calls issues the
\* same GET /v1/skills/{skillId}/history/intentRequests with the same query
C18_ReissueLeavesParamsAlone ==
  /\ callerParams = FullParams
  /\ \A f \in pending :
       f.op = "intentRequests.list" =>
         /\ f.req.verb = "GET"
         /\ f.req.url = <<"v1", "skills", FullParams.skillId, "history", "intentRequests">>
         /\ f.req.params = DeleteKey(FullParams, "skillId")

====
